---------------------------- MODULE Spec2Model ----------------------------
(***************************************************************************)
(* A model of the procedure-module validator of scripts-for-mod-docs,      *)
(* fix_procedure_files.fix_procedure_file.                                 *)
(*                                                                         *)
(* A document is a sequence of lines.  The validator looks at a line only  *)
(* through line.strip() (and, for the content-type test, through a regex   *)
(* search), so a line is modelled by the words of its stripped text: the   *)
(* sequence stripped.split() yields, words being separated by one space.   *)
(* The blank line is the empty sequence.  A predicate the code writes as a *)
(* regular expression or a startswith() test is written here as the same   *)
(* test on the first word(s) of the line.                                  *)
(*                                                                         *)
(* Indices are Python's: the first line of a buffer has index 0.           *)
(***************************************************************************)
EXTENDS Integers, Sequences, FiniteSets, TLC

(***************************************************************************)
(* Bounds of the model.                                                    *)
(***************************************************************************)
\* longest document body drawn by Init (lines after the optional head line)
MaxLen == 3
\* number of successive runs of the tool on the same file
MaxPasses == 2
\* insertions of one pass after which the model stops following the scan
MaxIns == 3
\* longest run of lines Init draws after a title and its first list line
MaxTail == 3

(***************************************************************************)
(* Python values.                                                          *)
(***************************************************************************)
None == -1

At(ls, i) == ls[i + 1]

\* an assignment ls[i] = x in place of the insertion
Overwrite(ls, i, x) ==
  IF i < Len(ls) THEN [ls EXCEPT ![i + 1] = x] ELSE Append(ls, x)

\* list.insert(i, x) for 0 <= i; an index past the end appends
Insert(ls, i, x) ==
  LET k == IF i > Len(ls) THEN Len(ls) ELSE i
  IN  SubSeq(ls, 1, k) \o <<x>> \o SubSeq(ls, k + 1, Len(ls))

(***************************************************************************)
(* The words the lines of the model are made of, grouped by the prefix     *)
(* tests the code applies to them.                                         *)
(***************************************************************************)
\* block_title_pattern: words that start with "." followed by a word character
TitleWords ==
  {".Procedure", ".Verification", ".Troubleshooting", ".Troubleshoot",
   ".Next", ".Additional"}

\* words that start with "."
DotWords == TitleWords \cup {".", "..", "...."}

\* words that start with "----" or with "...."
FenceWords == {"----", "...."}

\* words that start with "//"
CommentWords == {"//"}

\* words that start with "["
BracketWords == {"[role=\"_additional-resources\"]"}

\* words matching \d+\.
NumberWords == {"1."}

RoleLine == <<"[role=\"_additional-resources\"]">>

ALLOWED_BLOCK_TITLES ==
  {<<".Verification">>, <<".Troubleshooting">>, <<".Troubleshooting", "steps">>,
   <<".Next", "steps">>, <<".Next", "step">>, <<".Additional", "resources">>}

(***************************************************************************)
(* The diagnostic lines the validator inserts (the back quotes of the      *)
(* source messages are left out: the TLA+ lexer does not accept them).     *)
(***************************************************************************)
MsgEmbellished ==
  <<"//", "TODO:", "The", ".Procedure", "block", "title", "must", "not",
    "contain", "additional", "words.">>

MsgOnlyOne ==
  <<"//", "TODO:", "Must", "include", "only", "one", ".Procedure", "block",
    "title", "and", "list.">>

MsgMissing ==
  <<"//", "TODO:", "Must", "include", "a", ".Procedure", "block", "title",
    "followed", "by", "an", "ordered", "or", "unordered", "list.">>

MsgBadTitle ==
  <<"//", "TODO:", "Only", ".Procedure,", ".Verification,",
    ".Troubleshooting,", ".Next", "steps,", "etc.", "are", "allowed",
    "block", "titles", "in", "procedure", "modules.">>

MsgTrailing ==
  <<"//", "TODO:", "Content", "found", "after", "last", "procedure", "step.",
    "Only", "allowed", "sections", "may", "follow.">>

(***************************************************************************)
(* Line predicates.                                                        *)
(***************************************************************************)
\* stripped.startswith("----") or stripped.startswith("....")
IsFence(s) == s # <<>> /\ s[1] \in FenceWords

\* stripped.startswith("//")
IsComment(s) == s # <<>> /\ s[1] \in CommentWords

\* procedure_title_pattern.match(stripped): the word .Procedure, then the end
\* of the line or white space and anything
IsProcedureTitle(s) == s # <<>> /\ s[1] = ".Procedure"

\* match.group(1): the title carries more than the word .Procedure
Embellished(s) == Len(s) > 1

\* unordered_list_pattern: ^\s*[*+-]\s+
IsUnordered(s) == Len(s) > 1 /\ s[1] \in {"*", "+", "-"}

\* ordered_list_pattern: ^\s*\d+\.\s+
IsOrdered(s) == Len(s) > 1 /\ s[1] \in NumberWords

is_list_item(s) == IsUnordered(s) \/ IsOrdered(s)

\* block_title_pattern.match(stripped)
IsBlockTitle(s) == s # <<>> /\ s[1] \in TitleWords

\* stripped.startswith(w + " ") for a marker word w
StartsWithMarker(s, w) == Len(s) > 1 /\ s[1] = w

\* procedure_type_pattern.search(line): :_mod-docs-content-type:\s*PROCEDURE
DeclaresProcedureLine(s) ==
  \E i \in 1..(Len(s) - 1) :
      s[i] = ":_mod-docs-content-type:" /\ s[i + 1] = "PROCEDURE"

\* the content-type test left out: every document is taken for a procedure
AlwaysProcedure(ls) == TRUE

\* any(procedure_type_pattern.search(line) for line in lines)
DeclaresProcedure(ls) == \E i \in 1..Len(ls) : DeclaresProcedureLine(ls[i])

(***************************************************************************)
(* The look-ahead that follows the first list item (the while loop):       *)
(* TrackEnd is the value of temp_idx when the loop is left.                *)
(***************************************************************************)
RECURSIVE TrackEnd(_, _)
TrackEnd(ls, t) ==
  IF t >= Len(ls) THEN t
  ELSE LET next_line == At(ls, t)
       IN  IF \/ next_line = <<"+">>
              \/ (next_line # <<>> /\ next_line[1] \in DotWords)
              \/ (next_line # <<>> /\ next_line[1] \in BracketWords)
           THEN TrackEnd(ls, t + 1)
           ELSE IF IsFence(next_line) THEN TrackEnd(ls, t + 1)
           ELSE IF next_line = <<>> THEN t + 1
           ELSE t

\* temp_idx itself taken as the end of the list
ListEndAsTempIdx(ls, i) == TrackEnd(ls, i + 1)

\* last_list_line = temp_idx - 1
ListEnd(ls, i) == TrackEnd(ls, i + 1) - 1

(***************************************************************************)
(* The documents of the model.                                             *)
(***************************************************************************)
TypeProcedure == <<":_mod-docs-content-type:", "PROCEDURE">>
TypeConcept == <<":_mod-docs-content-type:", "CONCEPT">>

BodyLines ==
  {<<".Procedure">>, <<".Procedure", "for", "X">>,
   <<"*", "a">>, <<".", "a">>, <<>>, <<"----">>, <<"....">>,
   <<".Troubleshoot">>, <<".Next", "steps">>, <<".Verification">>,
   <<"para">>, <<"//", ".Procedure">>}

Heads == {<<>>, <<TypeProcedure>>, <<TypeConcept>>}

BoundedSeq(S, n) == UNION {[1..k -> S] : k \in 0..n}

\* any lines at all, up to MaxLen of them
AnyDocuments == {h \o b : h \in Heads, b \in BoundedSeq(BodyLines, MaxLen)}

\* the lines that follow the list in the longer documents
TailLines ==
  {<<>>, <<"para">>, <<"+">>, RoleLine, <<".Additional", "resources">>,
   <<".Verification">>, <<".Verification", "steps">>, <<".Troubleshoot">>,
   <<".Procedure">>, <<"*", "a">>}

\* a PROCEDURE document with its title and a first list line, then up to
\* MaxTail lines
ListedDocuments ==
  {<<TypeProcedure, <<".Procedure">>, i>> \o t :
     i \in {<<"*", "a">>, <<".", "a">>}, t \in BoundedSeq(TailLines, MaxTail)}

Documents == AnyDocuments \cup ListedDocuments

(***************************************************************************)
(* State.  file is the document on disk; the other variables up to         *)
(* in_code_block are the locals of fix_procedure_file, idx being the index *)
(* the for loop visits next; returned is the value of the last call.       *)
(* input, insLog and prevLog record history: the buffer the pass read, the *)
(* insertions of this pass as <<index, line>>, and those of the pass       *)
(* before.  dry_run is the argument of the call, drawn where the code      *)
(* reads it.  tracked and accepted record two events of the scan: the      *)
(* look-ahead of lines 72-86 as <<start index, end index, buffer length>>, *)
(* and the first block title the allow-set check of lines 121-127 let pass *)
(* as <<index, line, insertions made so far>>; each is <<>> before.        *)
(* filename is the base name of the file, which only fix_any_file reads.   *)
(***************************************************************************)
VARIABLES file, lines, pc, idx, changed, procedure_found, procedure_line,
          list_started, last_list_line, in_code_block, returned,
          pass, input, insLog, prevLog, dry_run, tracked, accepted, filename

locals == <<changed, procedure_found, procedure_line, list_started,
            last_list_line, in_code_block>>

vars == <<file, lines, pc, idx, changed, procedure_found, procedure_line,
          list_started, last_list_line, in_code_block, returned,
          pass, input, insLog, prevLog, dry_run, tracked, accepted, filename>>

Init ==
  /\ file \in Documents
  /\ lines = <<>>
  /\ pc = "idle"
  /\ idx = 0
  /\ changed = FALSE
  /\ procedure_found = FALSE
  /\ procedure_line = None
  /\ list_started = FALSE
  /\ last_list_line = None
  /\ in_code_block = FALSE
  /\ returned = FALSE
  /\ pass = 0
  /\ input = <<>>
  /\ insLog = <<>>
  /\ prevLog = <<>>
  /\ dry_run = FALSE
  /\ tracked = <<>>
  /\ accepted = <<>>
  /\ filename = "x.adoc"

(***************************************************************************)
(* fix_procedure_file, lines 22-35: read the file, return False unless a   *)
(* line declares the PROCEDURE content type, set the locals.  A run after  *)
(* the first reads what the run before left on disk; the model follows it  *)
(* when that is the buffer the run before computed.                        *)
(***************************************************************************)
Open ==
  /\ pc \in {"idle", "done"}
  /\ pass < MaxPasses
  /\ pc = "done" => file = lines
  /\ pass' = pass + 1
  /\ lines' = file
  /\ input' = file
  /\ prevLog' = insLog
  /\ insLog' = <<>>
  /\ idx' = 0
  /\ returned' = FALSE
  /\ dry_run' = FALSE
  /\ tracked' = <<>>
  /\ accepted' = <<>>
  /\ IF DeclaresProcedure(file)
     THEN /\ pc' = "scan"
          /\ changed' = FALSE
          /\ procedure_found' = FALSE
          /\ procedure_line' = None
          /\ list_started' = FALSE
          /\ last_list_line' = None
          /\ in_code_block' = FALSE
     ELSE /\ pc' = "done"
          /\ UNCHANGED locals
  /\ UNCHANGED <<file, filename>>

\* the for loop has a line to visit and the model still follows the scan
Visiting == pc = "scan" /\ idx < Len(lines) /\ Len(insLog) < MaxIns

\* lines 41-43
FenceLine ==
  /\ Visiting
  /\ IsFence(At(lines, idx))
  /\ in_code_block' = ~in_code_block
  /\ idx' = idx + 1
  /\ UNCHANGED <<file, filename, lines, pc, changed, procedure_found,
                 procedure_line,
                 list_started, last_list_line, returned, pass, input,
                 insLog, prevLog, dry_run, tracked, accepted>>

\* the in_code_block test left out: masked lines reach the rules
NeverSkip(icb) == FALSE

\* line 45
SkipInCodeBlock(icb) == icb

\* lines 45-46
MaskedLine ==
  /\ Visiting
  /\ ~IsFence(At(lines, idx))
  /\ SkipInCodeBlock(in_code_block)
  /\ idx' = idx + 1
  /\ UNCHANGED <<file, filename, lines, pc, locals, returned, pass, input,
                 insLog,
                 prevLog, dry_run, tracked, accepted>>

\* the line reaches the rules: it is no fence and the mask is off
Unmasked ==
  /\ Visiting
  /\ ~IsFence(At(lines, idx))
  /\ ~SkipInCodeBlock(in_code_block)

\* lines 49-50
CommentLine ==
  /\ Unmasked
  /\ IsComment(At(lines, idx))
  /\ idx' = idx + 1
  /\ UNCHANGED <<file, filename, lines, pc, locals, returned, pass, input,
                 insLog,
                 prevLog, dry_run, tracked, accepted>>

\* lines 53-64
TitleLine ==
  /\ Unmasked
  /\ ~IsComment(At(lines, idx))
  /\ IsProcedureTitle(At(lines, idx))
  /\ IF ~procedure_found
     THEN /\ procedure_found' = TRUE
          /\ procedure_line' = idx
          /\ IF Embellished(At(lines, idx))
             THEN /\ lines' = Insert(lines, idx, MsgEmbellished)
                  /\ insLog' = Append(insLog, <<idx, MsgEmbellished>>)
                  /\ changed' = TRUE
             ELSE UNCHANGED <<lines, insLog, changed>>
     ELSE /\ lines' = Insert(lines, idx, MsgOnlyOne)
          /\ insLog' = Append(insLog, <<idx, MsgOnlyOne>>)
          /\ changed' = TRUE
          /\ UNCHANGED <<procedure_found, procedure_line>>
  /\ idx' = idx + 1
  /\ UNCHANGED <<file, filename, pc, list_started, last_list_line,
                 in_code_block,
                 returned, pass, input, prevLog, dry_run, tracked, accepted>>

\* the test of lines 96-100 never firing
NeverNotAList(s) == FALSE

\* lines 96-100: the line after the title is neither a list item nor a step
NotAList(s) ==
  ~(is_list_item(s) \/ StartsWithMarker(s, ".") \/ StartsWithMarker(s, ".."))

\* line 122: title = stripped.split()[0]
TitleOf(s) == <<s[1]>>

\* lines 124-126
ShouldFlag(s, prev) == ~(TitleOf(s) = <<".Additional">> /\ prev = RoleLine)

\* line 127
FlagsTitle(s, prev) == ShouldFlag(s, prev) /\ TitleOf(s) \notin ALLOWED_BLOCK_TITLES

\* line 131
ValidAdditionalResources(s, prev) ==
  s = <<".Additional", "resources">> /\ prev = RoleLine

\* lines 136-144
DisallowedContent(s) ==
  /\ s # <<>>
  /\ ~IsComment(s)
  /\ ~(\/ StartsWithMarker(s, "*")
       \/ StartsWithMarker(s, "**")
       \/ StartsWithMarker(s, ".")
       \/ StartsWithMarker(s, "..")
       \/ s[1] = RoleLine[1])

\* the break of line 148 left out: only a judged block title ends the scan
StopsOnlyAtTitle(judgedTitle, flagContent) == judgedTitle

\* the break of line 133 left out: only flagged content ends the scan
StopsOnlyAtContent(judgedTitle, flagContent) == flagContent

\* lines 133 and 148: break after a block title was judged (unless line 132
\* continued) and after disallowed content was flagged
StopsScan(judgedTitle, flagContent) == judgedTitle \/ flagContent

(***************************************************************************)
(* Lines 66-148 for a line that is no fence, not masked, no comment and no *)
(* .Procedure title.  The definitions follow the statements in order; each *)
(* one reads the values the statements before it left.                     *)
(***************************************************************************)
BodyLine ==
  /\ Unmasked
  /\ ~IsComment(At(lines, idx))
  /\ ~IsProcedureTitle(At(lines, idx))
  /\ LET s == At(lines, idx)
         after == procedure_found /\ idx > procedure_line
         \* lines 67-86
         startsList == after /\ ~list_started /\ is_list_item(s)
         ls1 == list_started \/ startsList
         lll1 == IF startsList THEN ListEnd(lines, idx) ELSE last_list_line
         \* lines 89-106
         seeking == after /\ ~ls1
         skip == seeking /\ (s = <<>> \/ IsComment(s))
         flagList == seeking /\ ~skip /\ NotAList(s)
         lines2 == IF flagList
                   THEN Insert(lines, procedure_line + 1, MsgMissing)
                   ELSE lines
         log2 == IF flagList
                 THEN Append(insLog, <<procedure_line + 1, MsgMissing>>)
                 ELSE insLog
         ls2 == ls1 \/ (seeking /\ ~skip)
         \* lines 108-109
         lll2 == IF ~skip /\ ls2 /\ is_list_item(s) THEN idx ELSE lll1
         \* lines 112-148
         trailing == ~skip /\ procedure_found /\ lll2 # None /\ idx > lll2
         prev_line == IF idx > 0 THEN At(lines2, idx - 1) ELSE <<>>
         passed == trailing /\ (\/ prev_line = <<"+">>
                                \/ (prev_line # <<>> /\ ~IsBlockTitle(s)))
         judged == trailing /\ ~passed
         flagTitle == judged /\ IsBlockTitle(s) /\ FlagsTitle(s, prev_line)
         flagContent == judged /\ ~IsBlockTitle(s) /\ DisallowedContent(s)
         stop == StopsScan(judged /\ IsBlockTitle(s)
                             /\ ~ValidAdditionalResources(s, prev_line),
                           flagContent)
         msg == IF flagTitle THEN MsgBadTitle ELSE MsgTrailing
     IN  /\ lines' = IF flagTitle \/ flagContent
                     THEN Insert(lines2, idx, msg) ELSE lines2
         /\ insLog' = IF flagTitle \/ flagContent
                      THEN Append(log2, <<idx, msg>>) ELSE log2
         /\ changed' = (changed \/ flagList \/ flagTitle \/ flagContent)
         /\ list_started' = ls2
         /\ last_list_line' = lll2
         /\ pc' = IF stop THEN "post" ELSE "scan"
         /\ idx' = IF stop THEN idx ELSE idx + 1
         /\ tracked' = IF startsList
                       THEN <<idx, ListEnd(lines, idx), Len(lines)>>
                       ELSE tracked
         /\ accepted' = IF accepted = <<>> /\ judged /\ IsBlockTitle(s) /\ ~flagTitle
                        THEN <<idx, s, Len(log2)>>
                        ELSE accepted
  /\ UNCHANGED <<file, filename, procedure_found, procedure_line,
                 in_code_block,
                 returned, pass, input, prevLog, dry_run>>

\* the for loop finds no line at idx
ScanEnd ==
  /\ pc = "scan"
  /\ idx >= Len(lines)
  /\ pc' = "post"
  /\ UNCHANGED <<file, filename, lines, idx, locals, returned, pass, input,
                 insLog,
                 prevLog, dry_run, tracked, accepted>>

(***************************************************************************)
(* The scan has made MaxIns insertions and still has a line to visit: the  *)
(* model follows it no further.                                            *)
(***************************************************************************)
Diverge ==
  /\ pc = "scan"
  /\ idx < Len(lines)
  /\ Len(insLog) >= MaxIns
  /\ pc' = "diverged"
  /\ UNCHANGED <<file, filename, lines, idx, locals, returned, pass, input,
                 insLog,
                 prevLog, dry_run, tracked, accepted>>

\* the missing-title flag appended instead of inserted at index 0
WithMissingTitleAtEnd(ls, found) == IF ~found THEN Append(ls, MsgMissing) ELSE ls

\* lines 149-151
WithMissingTitle(ls, found) == IF ~found THEN Insert(ls, 0, MsgMissing) ELSE ls

\* dry_run ignored: a changed buffer is written also in preview mode
WritesAlways(chg, dry) == chg

\* line 153: if changed and not dry_run
Writes(chg, dry) == chg /\ ~dry

\* lines 149-157; dry_run is the argument of the call
Finish ==
  /\ pc = "post"
  /\ \E d \in BOOLEAN :
       LET out == WithMissingTitle(lines, procedure_found)
           chg == changed \/ ~procedure_found
       IN  /\ dry_run' = d
           /\ lines' = out
           /\ insLog' = IF ~procedure_found
                        THEN Append(insLog, <<0, MsgMissing>>) ELSE insLog
           /\ changed' = chg
           /\ file' = IF Writes(chg, d) THEN out ELSE file
           /\ returned' = chg
  /\ pc' = "done"
  /\ UNCHANGED <<idx, procedure_found, procedure_line, list_started,
                 last_list_line, in_code_block, pass, input, prevLog,
                 tracked, accepted, filename>>

Next ==
  \/ Open
  \/ FenceLine
  \/ MaskedLine
  \/ CommentLine
  \/ TitleLine
  \/ BodyLine
  \/ ScanEnd
  \/ Diverge
  \/ Finish

Spec == Init /\ [][Next]_vars

(***************************************************************************)
(* Vocabulary of the properties.  The mask is read off the buffer, not off *)
(* in_code_block: a line is masked when an odd number of fence lines lie   *)
(* before it.                                                              *)
(***************************************************************************)
FencesBefore(ls, k) == Cardinality({j \in 1..(k - 1) : IsFence(ls[j])})

\* the k-th line (counted from 1) is no fence and lies outside every fenced region
Outside(ls, k) == ~IsFence(ls[k]) /\ FencesBefore(ls, k) % 2 = 0

\* the k-th line lies inside a fenced region
Inside(ls, k) == ~IsFence(ls[k]) /\ FencesBefore(ls, k) % 2 = 1

\* the .Procedure titles the rules can see
Titles(ls) ==
  {k \in 1..Len(ls) : Outside(ls, k) /\ ~IsComment(ls[k]) /\ IsProcedureTitle(ls[k])}

Least(S) == CHOOSE k \in S : \A j \in S : k <= j
Greatest(S) == CHOOSE k \in S : \A j \in S : j <= k

\* a line the validator accepts as the start of the list: no missing-list flag
IsStep(s) == is_list_item(s) \/ StartsWithMarker(s, ".") \/ StartsWithMarker(s, "..")

\* the insertions of this pass that insert line m
Logged(m) == {n \in 1..Len(insLog) : insLog[n][2] = m}

\* the pass has a PROCEDURE document in hand
InPass == pc \in {"scan", "post", "done", "diverged"} /\ DeclaresProcedure(input)

(***************************************************************************)
(* The scan that never ends.  Once the loop visits a .Procedure title with *)
(* procedure_found set and the mask off, it inserts the single-title flag  *)
(* at idx, which moves the title to idx + 1, the index it visits next: the *)
(* same condition holds again, for ever.  Diverge is taken only there.     *)
(***************************************************************************)
TitleAgain ==
  /\ pc = "scan"
  /\ idx < Len(lines)
  /\ procedure_found
  /\ ~in_code_block
  /\ IsProcedureTitle(At(lines, idx))

TitleLoopPersists == [][TitleAgain => (TitleAgain' \/ pc' = "diverged")]_vars

DivergedOnlyInTitleLoop ==
  pc = "diverged" =>
    /\ idx < Len(lines)
    /\ procedure_found
    /\ ~in_code_block
    /\ IsProcedureTitle(At(lines, idx))
    /\ insLog[Len(insLog)] = <<idx - 1, MsgOnlyOne>>

(***************************************************************************)
(* C1.  One pass over a PROCEDURE document terminates: the scan reaches    *)
(* its end or a break after finitely many insertions, also for a document  *)
(* with an embellished title or a second title.  Stated on finite runs: no *)
(* pass is still scanning after MaxIns insertions.                         *)
(***************************************************************************)
C1_PassTerminates == InPass => pc # "diverged"

(***************************************************************************)
(* C2.  Single-title rule: for a document with two unembellished           *)
(* .Procedure titles outside code blocks and a list after the first, the   *)
(* pass inserts exactly one single-title flag, immediately before the      *)
(* second title.                                                           *)
(***************************************************************************)
C2Case ==
  /\ InPass
  /\ Cardinality(Titles(input)) = 2
  /\ \A k \in Titles(input) : input[k] = <<".Procedure">>
  /\ Least(Titles(input)) < Len(input)
  /\ IsStep(input[Least(Titles(input)) + 1])

C2_SingleTitleFlag ==
  C2Case =>
    /\ Cardinality(Logged(MsgOnlyOne)) <= 1
    /\ pc # "diverged"
    /\ pc = "done" =>
         /\ Cardinality(Logged(MsgOnlyOne)) = 1
         /\ \E k \in 1..(Len(lines) - 1) :
               /\ lines[k] = MsgOnlyOne
               /\ lines[k + 1] = <<".Procedure">>
               /\ Cardinality({j \in 1..k : lines[j] = <<".Procedure">>}) = 1

(***************************************************************************)
(* C3.  Embellished title: for a document whose only title is              *)
(* .Procedure <extra words> followed by a list, the pass inserts exactly   *)
(* one flag, the additional-words flag immediately before the title.       *)
(***************************************************************************)
C3Case ==
  /\ InPass
  /\ Cardinality(Titles(input)) = 1
  /\ Embellished(input[Least(Titles(input))])
  /\ Least(Titles(input)) < Len(input)
  /\ IsStep(input[Least(Titles(input)) + 1])

C3_EmbellishedTitle ==
  C3Case =>
    /\ Len(insLog) <= 1
    /\ Logged(MsgOnlyOne) = {}
    /\ Logged(MsgMissing) = {}
    /\ pc # "diverged"
    /\ pc = "done" =>
         lines = Insert(input, Least(Titles(input)) - 1, MsgEmbellished)

(***************************************************************************)
(* C4.  Weak idempotence: when the pass before inserted the missing-title  *)
(* or the missing-list flag, this pass over its output inserts neither.    *)
(***************************************************************************)
C4_WeakIdempotence ==
  (pass >= 2 /\ InPass /\ Logged(MsgMissing) # {}) =>
     \A n \in 1..Len(prevLog) : prevLog[n][2] # MsgMissing

(***************************************************************************)
(* C5.  Code-block opacity: every fence line toggles the mask and changes  *)
(* nothing else; a line visited while the mask is on (an odd number of     *)
(* fence lines before it in the buffer) causes no insertion, starts no     *)
(* list and is not taken for the title, whatever its shape and whatever    *)
(* state the scan is in; in_code_block is that parity throughout the scan. *)
(***************************************************************************)
C5_CodeBlockOpacity ==
  /\ [](pc = "scan" => in_code_block = (FencesBefore(lines, idx + 1) % 2 = 1))
  /\ [][(pc = "scan" /\ idx < Len(lines)) =>
          /\ IsFence(At(lines, idx)) =>
               /\ pc' = "diverged" \/ in_code_block' = ~in_code_block
               /\ UNCHANGED <<lines, insLog, changed, procedure_found,
                              procedure_line, list_started, last_list_line>>
          /\ Inside(lines, idx + 1) =>
               UNCHANGED <<lines, insLog, changed, procedure_found,
                           procedure_line, list_started, last_list_line,
                           in_code_block>>]_vars

\* the scan has just passed a second .Procedure title inside a fenced region,
\* after the title was found, and has inserted nothing
C5_Witness ==
  /\ pc = "scan"
  /\ idx >= 1
  /\ Inside(lines, idx)
  /\ IsProcedureTitle(lines[idx])
  /\ procedure_found
  /\ in_code_block
  /\ insLog = <<>>

(***************************************************************************)
(* The document shape of C6 and C7: one unembellished .Procedure title,    *)
(* directly followed by a run of lines the validator accepts as steps,     *)
(* then blank lines, then a first non-blank line.                          *)
(***************************************************************************)
TheTitle == Least(Titles(input))

StepsEnd ==
  Greatest({e \in (TheTitle + 1)..Len(input) :
              \A j \in (TheTitle + 1)..e : IsStep(input[j])})

AfterSteps == {j \in (StepsEnd + 1)..Len(input) : input[j] # <<>>}

ListCase ==
  /\ InPass
  /\ Cardinality(Titles(input)) = 1
  /\ input[TheTitle] = <<".Procedure">>
  /\ TheTitle < Len(input)
  /\ IsStep(input[TheTitle + 1])
  /\ AfterSteps # {}

FirstAfter == Least(AfterSteps)

(***************************************************************************)
(* C6.  Trailing allow-set, allowed side: when the first non-blank line    *)
(* after the list is a member of the allow-set, the pass inserts no        *)
(* diagnostic for it.                                                      *)
(***************************************************************************)
C6_AllowedTitleNotFlagged ==
  (ListCase /\ input[FirstAfter] \in ALLOWED_BLOCK_TITLES) => insLog = <<>>

(***************************************************************************)
(* C7.  Trailing allow-set, violating side: when the first non-blank line  *)
(* after the list is a block title outside the allow-set, the pass inserts *)
(* exactly one flag, immediately before that line, whatever accepted       *)
(* marker style the list uses.                                             *)
(***************************************************************************)
C7_DisallowedTitleFlagged ==
  (/\ ListCase
   /\ IsBlockTitle(input[FirstAfter])
   /\ input[FirstAfter] \notin ALLOWED_BLOCK_TITLES
   /\ pc = "done") =>
     lines = Insert(input, FirstAfter - 1, MsgBadTitle)

(***************************************************************************)
(* C8.  Missing title: when no unmasked, non-comment line of a PROCEDURE   *)
(* document is a .Procedure title, the pass makes exactly one insertion,   *)
(* the missing-title flag at index 0: nothing is inserted during the scan  *)
(* and the flag is put in front of the unchanged buffer at the end.        *)
(***************************************************************************)
C8_MissingTitle ==
  (InPass /\ Titles(input) = {}) =>
     /\ pc # "diverged"
     /\ pc \in {"scan", "post"} => (insLog = <<>> /\ lines = input)
     /\ pc = "done" =>
          /\ insLog = <<<<0, MsgMissing>>>>
          /\ lines = <<MsgMissing>> \o input
          /\ returned

\* a finished pass over a document whose only .Procedure title is masked and
\* which has a list item outside the fenced region
C8_Witness ==
  /\ pc = "done"
  /\ DeclaresProcedure(input)
  /\ Titles(input) = {}
  /\ \E k \in 1..Len(input) : IsProcedureTitle(input[k]) /\ Inside(input, k)
  /\ \E k \in 1..Len(input) : is_list_item(input[k]) /\ Outside(input, k)

(***************************************************************************)
(* C9, as claimed.  A zero-line document results in exactly one insertion, *)
(* the missing-title flag at index 0, and the pass reports a change.       *)
(***************************************************************************)
C9_EmptyDocumentFlagged ==
  (pc = "done" /\ input = <<>>) => (lines = <<MsgMissing>> /\ returned)

(***************************************************************************)
(* C9, amended.  A zero-line document declares no content type: the pass   *)
(* inserts nothing, writes nothing and returns False.  The smallest        *)
(* document the validator acts on, the PROCEDURE content-type line alone,  *)
(* results in exactly one insertion, the missing-title flag at index 0,    *)
(* and the pass reports a change.                                          *)
(***************************************************************************)
C9_EmptyDocument ==
  /\ (pc = "done" /\ input = <<>>) =>
        (lines = <<>> /\ file = <<>> /\ insLog = <<>> /\ ~returned)
  /\ (pc = "done" /\ input = <<TypeProcedure>>) =>
        /\ lines = <<MsgMissing, TypeProcedure>>
        /\ insLog = <<<<0, MsgMissing>>>>
        /\ returned

\* a call on the zero-line document has returned
C9_Witness == pc = "done" /\ pass = 1 /\ input = <<>> /\ file = <<>>

(***************************************************************************)
(* C10.  Unknown content type is a silent no-op: when no line declares the *)
(* PROCEDURE content type the call inserts nothing, leaves the buffer and  *)
(* the file as they were and returns False, whatever defects the document  *)
(* has.                                                                    *)
(***************************************************************************)
C10_UnknownTypeNoOp ==
  (pc = "done" /\ \A k \in 1..Len(input) : ~DeclaresProcedureLine(input[k])) =>
     /\ lines = input
     /\ file = input
     /\ insLog = <<>>
     /\ ~returned

\* a call has returned on a document of another content type that has a
\* .Procedure title with no list and a block title outside the allow-set
C10_Witness ==
  /\ pc = "done"
  /\ \A k \in 1..Len(input) : ~DeclaresProcedureLine(input[k])
  /\ Len(input) >= 3
  /\ input[1] = TypeConcept
  /\ input[2] = <<".Procedure">>
  /\ input[3] = <<".Troubleshoot">>

(***************************************************************************)
(* The document shape of C11: one unembellished .Procedure title whose     *)
(* first unmasked, non-blank, non-comment follower is no list item and no  *)
(* step.                                                                   *)
(***************************************************************************)
Followers ==
  {j \in (TheTitle + 1)..Len(input) :
     Outside(input, j) /\ input[j] # <<>> /\ ~IsComment(input[j])}

C11Case ==
  /\ InPass
  /\ Cardinality(Titles(input)) = 1
  /\ input[TheTitle] = <<".Procedure">>
  /\ Followers # {}
  /\ ~IsStep(input[Least(Followers)])

TrailingLogged == Logged(MsgBadTitle) \cup Logged(MsgTrailing)

(***************************************************************************)
(* C12.  At most one trailing-section flag per pass: the trailing          *)
(* validation inserts at most one diagnostic, and once it has, the scan is *)
(* over: no further line is examined and nothing is inserted after it.     *)
(***************************************************************************)
C12_OneTrailingFlag ==
  TrailingLogged # {} =>
    /\ TrailingLogged = {Len(insLog)}
    /\ pc \in {"post", "done"}
    /\ idx = insLog[Len(insLog)][1]

\* a pass has flagged trailing content and returned with two more lines
\* below it, the last of them a block title outside the allow-set
C12_Witness ==
  /\ pc = "done"
  /\ Logged(MsgTrailing) # {}
  /\ idx + 3 = Len(lines)
  /\ lines[Len(lines)] = <<".Troubleshoot">>

\* the fixed set of diagnostic lines
Messages == {MsgEmbellished, MsgOnlyOne, MsgMissing, MsgBadTitle, MsgTrailing}

\* b is o with zero or more diagnostic lines inserted: the lines of o are
\* all in b, unmodified and in their order, and every other line of b is
\* one of the messages
RECURSIVE Embeds(_, _)
Embeds(o, b) ==
  IF b = <<>> THEN o = <<>>
  ELSE \/ o # <<>> /\ Head(o) = Head(b) /\ Embeds(Tail(o), Tail(b))
       \/ Head(b) \in Messages /\ Embeds(o, Tail(b))

(***************************************************************************)
(* C13.  Only diagnostic insertions: at every point of a pass the buffer   *)
(* is the original document with zero or more lines inserted, each a       *)
(* // TODO: comment with one of the fixed messages; no original line is    *)
(* removed, modified or reordered, and the buffer is as long as the        *)
(* original plus the number of insertions.                                 *)
(***************************************************************************)
C13_OnlyInsertions ==
  pc # "idle" =>
    /\ Embeds(input, lines)
    /\ Len(lines) = Len(input) + Len(insLog)
    /\ \A n \in 1..Len(insLog) :
         /\ insLog[n][2] \in Messages
         /\ insLog[n][2][1] = "//"
         /\ insLog[n][2][2] = "TODO:"

\* a pass has returned after an insertion in the middle of the document
C13_Witness ==
  /\ pc = "done"
  /\ Len(insLog) = 1
  /\ insLog[1][1] \in 2..(Len(input) - 2)
  /\ lines = Insert(input, insLog[1][1], insLog[1][2])

(***************************************************************************)
(* C14.  Preview mode: with dry_run the call computes the same buffer and  *)
(* returns the same value as without, and never writes the file; without   *)
(* dry_run the file is written exactly when the pass made an insertion;    *)
(* either way the call returns True exactly when it made an insertion.     *)
(***************************************************************************)
C14_PreviewMode ==
  /\ [](pc = "done" =>
          /\ returned = (insLog # <<>>)
          /\ dry_run => file = input
          /\ ~dry_run => file = lines
          /\ (insLog # <<>>) = (lines # input))
  /\ [][pc = "post" =>
          /\ lines' = (IF procedure_found THEN lines ELSE <<MsgMissing>> \o lines)
          /\ returned' = (changed \/ ~procedure_found)]_vars

\* a preview call has returned True and left the file as it was although
\* the buffer got a flag
C14_Witness ==
  /\ pc = "done"
  /\ dry_run
  /\ returned
  /\ file = input
  /\ lines # input

(***************************************************************************)
(* C15.  Tracker bounds: when the look-ahead runs from a list start at     *)
(* index i of a buffer of len lines, the end index it computes satisfies   *)
(* i <= end <= len - 1.                                                    *)
(***************************************************************************)
C15_TrackerBounds ==
  tracked # <<>> =>
    /\ tracked[1] <= tracked[2]
    /\ tracked[2] <= tracked[3] - 1

\* the look-ahead has run over continuation lines up to the last line of
\* the buffer
C15_Witness ==
  /\ tracked # <<>>
  /\ tracked[1] + 2 <= tracked[2]
  /\ tracked[2] = tracked[3] - 1
  /\ lines[tracked[3]] # <<>>

(***************************************************************************)
(* C16.  The tracked end index governs the trailing zone: when the         *)
(* look-ahead computed the end index e for the list, no line at an index   *)
(* up to e is subject to the trailing validation, so a block title or an   *)
(* attribute line directly under the list item is not flagged.             *)
(***************************************************************************)
C16_TrackedEndGoverns ==
  tracked # <<>> =>
    \A n \in TrailingLogged : insLog[n][1] > tracked[2]

(***************************************************************************)
(* C17.  Index shift accounted for: after an insertion that does not stop  *)
(* the scan, the line that triggered it sits one index further down, and   *)
(* the scan resumes at the line after it, not at the triggering line       *)
(* again.                                                                  *)
(***************************************************************************)
C17_IndexShiftAccounted ==
  [][(pc = "scan" /\ pc' = "scan" /\ Len(lines') = Len(lines) + 1) =>
       idx' > idx + 1]_vars

(***************************************************************************)
(* C18.  Trailing flags converge: when the previous pass inserted a        *)
(* trailing-section flag immediately before a line L, this pass over its   *)
(* output inserts no further diagnostic before L.                          *)
(***************************************************************************)
C18_TrailingFlagsConverge ==
  (/\ pass >= 2
   /\ InPass
   /\ prevLog # <<>>
   /\ prevLog[Len(prevLog)][2] \in {MsgBadTitle, MsgTrailing}) =>
     \A n \in 1..Len(insLog) : insLog[n][1] # prevLog[Len(prevLog)][1] + 1

\* a line the trailing validation has no exemption for: not blank, not a
\* comment, not a block title, not a list marker, not the role line
PlainContent(s) == DisallowedContent(s) /\ ~IsBlockTitle(s)

(***************************************************************************)
(* C19.  Disallowed trailing content: after a list of any accepted marker  *)
(* style, the first non-blank line after the list, when it follows a blank *)
(* line and is plain content, is flagged with the content-found message    *)
(* immediately before it; and a plain-content line that directly follows a *)
(* non-blank line is passed through without a flag.                        *)
(***************************************************************************)
C19_DisallowedTrailingContent ==
  (ListCase /\ pc = "done") =>
    /\ (/\ Outside(input, FirstAfter)
        /\ input[FirstAfter - 1] = <<>>
        /\ PlainContent(input[FirstAfter])) =>
          lines = Insert(input, FirstAfter - 1, MsgTrailing)
    /\ \A j \in (StepsEnd + 1)..Len(input) :
         (PlainContent(input[j]) /\ input[j - 1] # <<>>) =>
            \A n \in 1..Len(insLog) : insLog[n][1] # j - 1

(***************************************************************************)
(* C20.  Scanning stops after the first allowed trailing title: once the   *)
(* allow-set check has let a block title of the trailing zone pass without *)
(* a flag, no later line causes an insertion in that pass.                 *)
(***************************************************************************)
C20_StopsAfterAllowedTitle ==
  accepted # <<>> => Len(insLog) = accepted[3]

(***************************************************************************)
(* C20, amended.  The scan stops at the first block title the allow-set    *)
(* check lets pass without a flag, and nothing is inserted afterwards,     *)
(* unless that title is .Additional resources under its role line: after   *)
(* that one the scan goes on.                                              *)
(***************************************************************************)
C20_StopsUnlessAdditionalResources ==
  (accepted # <<>> /\ accepted[2] # <<".Additional", "resources">>) =>
    /\ pc \in {"post", "done"}
    /\ idx = accepted[1]
    /\ Len(insLog) = accepted[3]

\* a pass has returned without an insertion after accepting .Verification,
\* with a block title outside the allow-set on the line below
C20_Witness ==
  /\ pc = "done"
  /\ accepted # <<>>
  /\ accepted[2] = <<".Verification">>
  /\ insLog = <<>>
  /\ accepted[1] + 2 <= Len(lines)
  /\ At(lines, accepted[1] + 1) = <<".Troubleshoot">>

(***************************************************************************)
(* The scan stands at an unmasked line of the trailing zone: a list item   *)
(* has been seen and the line lies below the last one.                     *)
(***************************************************************************)
InTrailingZone ==
  /\ pc = "scan"
  /\ idx < Len(lines)
  /\ Len(insLog) < MaxIns
  /\ ~in_code_block
  /\ procedure_found
  /\ last_list_line # None
  /\ idx > last_list_line

Cur == At(lines, idx)
Prev == At(lines, idx - 1)

(***************************************************************************)
(* C21.  Additional-resources exception: in the trailing zone neither an   *)
(* .Additional resources line directly under its role line nor the role    *)
(* line itself is ever flagged, and a block title outside the allow-set    *)
(* that is not this case (and no continuation after a + line) is flagged   *)
(* when the scan comes to it.                                              *)
(***************************************************************************)
C21_AdditionalResourcesException ==
  /\ [](\A n \in TrailingLogged :
          LET k == insLog[n][1]
          IN  /\ At(lines, k + 1) # RoleLine
              /\ ~ValidAdditionalResources(At(lines, k + 1), At(lines, k - 1)))
  /\ [][(/\ InTrailingZone
         /\ IsBlockTitle(Cur)
         /\ ~IsProcedureTitle(Cur)
         /\ Cur \notin ALLOWED_BLOCK_TITLES
         /\ ~ValidAdditionalResources(Cur, Prev)
         /\ Prev # <<"+">>) =>
           lines' = Insert(lines, idx, MsgBadTitle)]_vars

(***************************************************************************)
(* fix_assembly_files.py.  The lines are word sequences as before.         *)
(***************************************************************************)
\* longest assembly document body Init draws
MaxAsmLen == 3
\* passes of fix_assembly_file over one file
MaxAsmPasses == 11
\* lines[:10]
TopWindow == 10
\* lines[-5:]
TailWindow == 5

TypeAssembly == <<":_mod-docs-content-type:", "ASSEMBLY">>

TopConditional == <<"ifdef::context[:parent-context:", "{context}]">>
BottomConditional1 == <<"ifdef::parent-context[:context:", "{parent-context}]">>
BottomConditional2 == <<"ifndef::parent-context[:!context:]">>

TodoContext == <<"//", "TODO:", "set", "a", ":context:", "attribute">>
TodoHeading == <<"//", "TODO:", "Remove", "or", "revise", "level", "2+", "heading">>
TodoBlockTitle ==
  <<"//", "TODO:", "Replace", "the", "following", "block", "title", "with",
    "a", "==", "<subheading>.">>

\* words that start with "include::"
IncludeWords == {"include::a.adoc[]", "include::b.adoc[]"}

\* words that start with "===", the bare delimiter "====" among them
HeadingWords == {"===", "====", "====="}

\* include_pattern.match(line.strip())
IsInclude(s) == s # <<>> /\ s[1] \in IncludeWords

\* context_declaration_pattern.match(line.strip())
IsContextDeclaration(s) == s # <<>> /\ s[1] = ":context:"

\* line.strip().startswith("===") and line.strip() != "===="
IsIllegalHeading(s) == s # <<>> /\ s[1] \in HeadingWords /\ s # <<"====">>

\* block_title_pattern.match(line.strip()) with ^\.[A-Za-z].*
AsmIsBlockTitle(s) == s # <<>> /\ s[1] \in TitleWords

\* assembly_type_pattern.search(line) for some line
DeclaresAssembly(ls) ==
  \E k \in 1..Len(ls) : \E i \in 1..(Len(ls[k]) - 1) :
      ls[k][i] = ":_mod-docs-content-type:" /\ ls[k][i + 1] = "ASSEMBLY"

\* the first n lines, and the last n lines
FirstLines(ls, n) == SubSeq(ls, 1, IF n < Len(ls) THEN n ELSE Len(ls))
LastLines(ls, n) == SubSeq(ls, IF Len(ls) > n THEN Len(ls) - n + 1 ELSE 1, Len(ls))

Has(ls, x) == \E k \in 1..Len(ls) : ls[k] = x

\* the whole buffer searched for the conditional, not its first ten lines
TopAnywhere(ls) == IF Has(ls, TopConditional) THEN ls ELSE <<TopConditional>> \o ls

\* ensure_top_conditional: the buffer it leaves
ensure_top_conditional(ls) ==
  IF Has(FirstLines(ls, TopWindow), TopConditional)
  THEN ls ELSE <<TopConditional>> \o ls

\* ensure_bottom_conditionals
ensure_bottom_conditionals(ls) ==
  LET tail == LastLines(ls, TailWindow)
  IN  IF ~Has(tail, BottomConditional1) \/ ~Has(tail, BottomConditional2)
      THEN ls \o <<<<>>, BottomConditional1, BottomConditional2>>
      ELSE ls

\* ensure_context_variable
ensure_context_variable(ls) ==
  IF \E k \in 1..Len(ls) : IsContextDeclaration(ls[k])
  THEN ls ELSE <<TodoContext>> \o ls

\* the while loop of ensure_include_spacing from index i on, with the
\* value of changed so far: the buffer it leaves and the value it returns
RECURSIVE SpacingFrom(_, _, _)
SpacingFrom(ls, i, chg) ==
  IF i < Len(ls) - 1
  THEN IF IsInclude(At(ls, i)) /\ IsInclude(At(ls, i + 1))
       THEN SpacingFrom(Insert(ls, i + 1, <<>>), i + 2, TRUE)
       ELSE SpacingFrom(ls, i + 1, chg)
  ELSE <<ls, chg>>

\* no blank line inserted at all
LeaveSpacing(ls) == <<ls, FALSE>>

\* ensure_include_spacing: <<buffer, returned value>>
ensure_include_spacing(ls) == SpacingFrom(ls, 0, FALSE)

\* the buffer with line x inserted before the first of the lines numbered in
\* hits, or the buffer itself when there is none
FlagFirst(ls, hits, x) ==
  IF hits # {}
  THEN Insert(ls, Least(hits) - 1, x)
  ELSE ls

\* flag_illegal_headings
flag_illegal_headings(ls) ==
  FlagFirst(ls, {k \in 1..Len(ls) : IsIllegalHeading(ls[k])}, TodoHeading)

\* flag_block_titles of fix_assembly_files.py
asm_flag_block_titles(ls) ==
  FlagFirst(ls, {k \in 1..Len(ls) : AsmIsBlockTitle(ls[k])}, TodoBlockTitle)

(***************************************************************************)
(* The passes of fix_assembly_file over one file.  Of the variables it     *)
(* uses file, lines, changed, returned, pass, input and dry_run; pc names  *)
(* the function called next.                                               *)
(***************************************************************************)
AsmLines ==
  {<<":context:", "x">>, <<"include::a.adoc[]">>, <<>>, <<"===", "H">>,
   <<"====">>, <<".Troubleshoot">>}

AsmDocuments ==
  {h \o b : h \in {<<TypeAssembly>>, <<TypeConcept>>},
            b \in BoundedSeq(AsmLines, MaxAsmLen)}

\* the variables a call of the other fixers leaves alone
scanState == <<filename, idx, procedure_found, procedure_line, list_started,
               last_list_line, in_code_block, insLog, prevLog, tracked,
               accepted>>

AsmInit ==
  /\ file \in AsmDocuments
  /\ lines = <<>>
  /\ pc = "idle"
  /\ idx = 0
  /\ changed = FALSE
  /\ procedure_found = FALSE
  /\ procedure_line = None
  /\ list_started = FALSE
  /\ last_list_line = None
  /\ in_code_block = FALSE
  /\ returned = FALSE
  /\ pass = 0
  /\ input = <<>>
  /\ insLog = <<>>
  /\ prevLog = <<>>
  /\ dry_run = FALSE
  /\ tracked = <<>>
  /\ accepted = <<>>
  /\ filename = "x.adoc"

\* lines 88-95
AsmOpen ==
  /\ pc \in {"idle", "done"}
  /\ pass < MaxAsmPasses
  /\ pc = "done" => file = lines
  /\ pass' = pass + 1
  /\ lines' = file
  /\ input' = file
  /\ changed' = FALSE
  /\ returned' = FALSE
  /\ dry_run' = FALSE
  /\ pc' = IF DeclaresAssembly(file) THEN "top" ELSE "done"
  /\ UNCHANGED <<file, scanState>>

\* changed |= (out # lines), for the call at pc = at that leaves buffer out
AsmCall(at, then, out) ==
  /\ pc = at
  /\ lines' = out
  /\ changed' = (changed \/ out # lines)
  /\ pc' = then
  /\ UNCHANGED <<file, returned, pass, input, dry_run, scanState>>

\* line 96
AsmTop == AsmCall("top", "bottom", ensure_top_conditional(lines))
\* line 97
AsmBottom == AsmCall("bottom", "context", ensure_bottom_conditionals(lines))
\* line 98
AsmContext == AsmCall("context", "spacing", ensure_context_variable(lines))
\* the buffer ensure_include_spacing leaves
SpacedLines(ls) == ensure_include_spacing(ls)[1]

\* line 99
AsmSpacing == AsmCall("spacing", "headings", SpacedLines(lines))
\* line 100
AsmHeadings == AsmCall("headings", "titles", flag_illegal_headings(lines))
\* line 101
AsmBlockTitles == AsmCall("titles", "write", asm_flag_block_titles(lines))

\* lines 103-107
AsmFinish ==
  /\ pc = "write"
  /\ \E d \in BOOLEAN :
       /\ dry_run' = d
       /\ file' = IF Writes(changed, d) THEN lines ELSE file
  /\ returned' = changed
  /\ pc' = "done"
  /\ UNCHANGED <<lines, changed, pass, input, scanState>>

AsmNext ==
  \/ AsmOpen
  \/ AsmTop
  \/ AsmBottom
  \/ AsmContext
  \/ AsmSpacing
  \/ AsmHeadings
  \/ AsmBlockTitles
  \/ AsmFinish

AssemblySpec == AsmInit /\ [][AsmNext]_vars

\* how many lines of ls equal x
Copies(ls, x) == Cardinality({k \in 1..Len(ls) : ls[k] = x})

(***************************************************************************)
(* C22.  The top conditional is inserted at most once over repeated        *)
(* passes: after any number of passes of fix_assembly_file over its own    *)
(* output, starting from an ASSEMBLY document without the line, the buffer *)
(* holds exactly one copy of it.                                           *)
(***************************************************************************)
C22_TopConditionalOnce ==
  (pc = "done" /\ DeclaresAssembly(input)) => Copies(lines, TopConditional) = 1

(***************************************************************************)
(* Calls of single functions on buffers of their own: pc names the         *)
(* function, lines is the buffer it is given and leaves, input the buffer  *)
(* before the last call, pass the number of calls made, returned and idx   *)
(* the value the last call returned.                                       *)
(***************************************************************************)
\* longest buffer a function is called on
MaxBuf == 5
\* calls of one function in a row, each on the buffer the call before left
MaxCalls == 2

SpacingBuffers ==
  BoundedSeq({<<"include::a.adoc[]">>, <<>>, <<"para">>}, MaxBuf)

(***************************************************************************)
(* fix_any_file.ensure_additional_resources_role                           *)
(***************************************************************************)
\* stripped == "== Additional resources" or stripped == ".Additional resources"
IsAdditionalResources(s) ==
  s \in {<<"==", "Additional", "resources">>, <<".Additional", "resources">>}

\* the line before never taken for the role line
NeverRoleLine(s) == FALSE

\* prev_line == '[role="_additional-resources"]'
IsRoleLine(s) == s = RoleLine

\* the while loop from index i on, new being new_lines so far
RECURSIVE RoleFrom(_, _, _)
RoleFrom(ls, i, new) ==
  IF i < Len(ls)
  THEN LET line == At(ls, i)
           prev_line == IF i > 0 THEN At(ls, i - 1) ELSE <<>>
       IN  RoleFrom(ls, i + 1,
                    IF IsAdditionalResources(line) /\ ~IsRoleLine(prev_line)
                    THEN new \o <<RoleLine, line>>
                    ELSE Append(new, line))
  ELSE new

\* ensure_additional_resources_role: the list it returns
ensure_additional_resources_role(ls) == RoleFrom(ls, 0, <<>>)

RoleBuffers ==
  BoundedSeq({<<"==", "Additional", "resources">>, <<".Additional", "resources">>,
              RoleLine, <<"para">>, <<>>}, MaxBuf)

(***************************************************************************)
(* fix_concept_reference_files.flag_block_titles                           *)
(***************************************************************************)
\* lines[idx+1:idx+6]
LookAhead == 5

TodoUnexpected ==
  <<"//", "TODO:", "Unexpected", "block", "title.", "Use", "only", ".Next",
    "steps", "or", ".Additional", "resources", "in", "concept/reference",
    "modules.">>

\* words that start with one of skip_next_line_types
StructureWords == {"----", "....", "|====", "|===", "===="}

\* one-word lines that match formatting_pattern ^\[.*\]$
FormatWords == {"[source,yaml]", "[role=\"_additional-resources\"]"}

\* block_title_pattern.match(line_stripped) with ^\.[A-Za-z].+
CrIsBlockTitle(s) == s # <<>> /\ s[1] \in TitleWords

\* the for loop over lookahead_lines from its k-th line on: the value of
\* is_valid_structure when it is left
RECURSIVE ValidStructure(_, _)
ValidStructure(la, k) ==
  IF k > Len(la) THEN FALSE
  ELSE IF la[k] = <<>> THEN ValidStructure(la, k + 1)
  ELSE IF Len(la[k]) = 1 /\ la[k][1] \in FormatWords THEN ValidStructure(la, k + 1)
  ELSE la[k][1] \in StructureWords

\* lines 90-109 for the line at index i: the title is noted for a flag
Offending(ls, i) ==
  /\ CrIsBlockTitle(At(ls, i))
  /\ At(ls, i) \notin {<<".Additional", "resources">>, <<".Next", "steps">>}
  /\ ~ValidStructure(SubSeq(ls, i + 2,
                            IF i + 1 + LookAhead < Len(ls)
                            THEN i + 1 + LookAhead ELSE Len(ls)), 1)

\* the scan of lines 87-109 from index i on: the list insertions
RECURSIVE ScanTitles(_, _, _)
ScanTitles(ls, i, insertions) ==
  IF i < Len(ls)
  THEN ScanTitles(ls, i + 1,
                  IF Offending(ls, i) THEN Append(insertions, i) ELSE insertions)
  ELSE insertions

\* the insertions applied in the order they were found, lowest index first
RECURSIVE InsertForward(_, _)
InsertForward(ls, insertions) ==
  IF insertions = <<>> THEN ls
  ELSE InsertForward(Insert(ls, Head(insertions), TodoUnexpected), Tail(insertions))

\* lines 111-113: for idx in reversed(insertions): lines.insert(idx, ...)
RECURSIVE InsertReversed(_, _)
InsertReversed(ls, insertions) ==
  IF insertions = <<>> THEN ls
  ELSE InsertReversed(Insert(ls, insertions[Len(insertions)], TodoUnexpected),
                      SubSeq(insertions, 1, Len(insertions) - 1))

\* flag_block_titles of fix_concept_reference_files.py:
\* <<buffer, returned value>>
cr_flag_block_titles(ls) ==
  LET insertions == ScanTitles(ls, 0, <<>>)
  IN  <<InsertReversed(ls, insertions), insertions # <<>>>>

TitleBuffers ==
  BoundedSeq({<<".Troubleshoot">>, <<".Next", "steps">>, <<"----">>,
              <<"[source,yaml]">>, <<>>, <<"para">>}, MaxBuf)

(***************************************************************************)
(* fix_concept_reference_files.contains_instructional_content              *)
(***************************************************************************)
imperative_verbs ==
  {"configure", "add", "set", "click", "open", "run", "create", "delete",
   "update", "install", "enable", "disable"}

\* str.lower() of a word
Lower(w) == IF w = "Click" THEN "click" ELSE IF w = "See" THEN "see" ELSE w

\* line.strip().lower()
LowerLine(s) == [i \in 1..Len(s) |-> Lower(s[i])]

\* words that start with "link:", each of the form link:target[text]
LinkWords == {"link:x[y]"}

\* words that end with the first ":" of their line
ColonWords == {"note:"}

\* link_only_pattern.match(stripped)
IsLinkOnly(s) ==
  Len(s) = 2 /\ s[1] \in ({"*"} \cup NumberWords) /\ s[2] \in LinkWords

\* lines 33-38: the known safe forms
IsSafeForm(s) ==
  \/ s[1] \in LinkWords
  \/ \E i \in 1..(Len(s) - 1) : s[i] = "see" /\ s[i + 1] \in LinkWords
  \/ /\ Len(s) >= 3
     /\ SubSeq(s, 1, 3) = <<"for", "more", "information">>
     /\ \E i \in 1..Len(s) : s[i] = "see"
  \/ IsLinkOnly(s)

\* instructional_list_pattern.match(stripped)
IsInstructionalListItem(s) ==
  Len(s) > 1 /\ s[1] \in ({"*", "-", "."} \cup NumberWords)

\* text.startswith(verb + " ") and text.split()[0] == verb, for some verb
StartsWithVerb(s) == Len(s) > 1 /\ s[1] \in imperative_verbs

\* lines 50-54: the text after the first ":" of the line, or the line
AfterColon(s) ==
  IF \E i \in 1..Len(s) : s[i] \in ColonWords
  THEN SubSeq(s, Least({i \in 1..Len(s) : s[i] \in ColonWords}) + 1, Len(s))
  ELSE s

\* line 65: if in_list_item
IsFollowUp(in_list_item) == in_list_item

\* the for loop from index i on: the index returned, or None
RECURSIVE InstructionalFrom(_, _, _)
InstructionalFrom(ls, i, in_list_item) ==
  IF i >= Len(ls) THEN None
  ELSE LET stripped == LowerLine(At(ls, i))
       IN  IF stripped = <<>> \/ stripped[1] \in CommentWords
           THEN InstructionalFrom(ls, i + 1, in_list_item)
           ELSE IF IsSafeForm(stripped)
           THEN InstructionalFrom(ls, i + 1, in_list_item)
           ELSE IF IsInstructionalListItem(stripped)
           THEN IF StartsWithVerb(AfterColon(stripped))
                THEN i
                ELSE InstructionalFrom(ls, i + 1, TRUE)
           ELSE IF IsFollowUp(in_list_item)
           THEN InstructionalFrom(ls, i + 1, in_list_item)
           ELSE IF StartsWithVerb(stripped)
           THEN i
           ELSE InstructionalFrom(ls, i + 1, in_list_item)

contains_instructional_content(ls) == InstructionalFrom(ls, 0, FALSE)

InstructionBuffers ==
  BoundedSeq({<<"*", "an", "item">>, <<"*", "note:", "click", "ok">>,
              <<"Click", "ok">>, <<"text">>, <<"link:x[y]">>, <<"//", "x">>,
              <<>>}, MaxBuf)

CallInit ==
  /\ \/ pc = "ensure_include_spacing" /\ lines \in SpacingBuffers
     \/ pc = "ensure_additional_resources_role" /\ lines \in RoleBuffers
     \/ pc = "flag_block_titles" /\ lines \in TitleBuffers
     \/ pc = "contains_instructional_content" /\ lines \in InstructionBuffers
  /\ file = <<>>
  /\ idx = None
  /\ changed = FALSE
  /\ procedure_found = FALSE
  /\ procedure_line = None
  /\ list_started = FALSE
  /\ last_list_line = None
  /\ in_code_block = FALSE
  /\ returned = FALSE
  /\ pass = 0
  /\ input = lines
  /\ insLog = <<>>
  /\ prevLog = <<>>
  /\ dry_run = FALSE
  /\ tracked = <<>>
  /\ accepted = <<>>
  /\ filename = "x.adoc"

\* the variables a call of a single function leaves alone
callFrame == <<file, filename, pc, changed, procedure_found, procedure_line,
               list_started, last_list_line, in_code_block, insLog, prevLog,
               dry_run, tracked, accepted>>

\* fix_assembly_files.ensure_include_spacing(lines)
CallEnsureIncludeSpacing ==
  /\ pc = "ensure_include_spacing"
  /\ pass < MaxCalls
  /\ pass' = pass + 1
  /\ input' = lines
  /\ lines' = ensure_include_spacing(lines)[1]
  /\ returned' = ensure_include_spacing(lines)[2]
  /\ UNCHANGED <<idx, callFrame>>

\* lines = fix_any_file.ensure_additional_resources_role(lines)
CallEnsureAdditionalResourcesRole ==
  /\ pc = "ensure_additional_resources_role"
  /\ pass < MaxCalls
  /\ pass' = pass + 1
  /\ input' = lines
  /\ lines' = ensure_additional_resources_role(lines)
  /\ UNCHANGED <<idx, returned, callFrame>>

\* fix_concept_reference_files.flag_block_titles(lines)
CallFlagBlockTitles ==
  /\ pc = "flag_block_titles"
  /\ pass < MaxCalls
  /\ pass' = pass + 1
  /\ input' = lines
  /\ lines' = cr_flag_block_titles(lines)[1]
  /\ returned' = cr_flag_block_titles(lines)[2]
  /\ UNCHANGED <<idx, callFrame>>

\* fix_concept_reference_files.contains_instructional_content(lines); the
\* buffer is left as it is, so one call is all there is to see
CallContainsInstructionalContent ==
  /\ pc = "contains_instructional_content"
  /\ pass = 0
  /\ pass' = 1
  /\ input' = lines
  /\ idx' = contains_instructional_content(lines)
  /\ UNCHANGED <<lines, returned, callFrame>>

CallNext ==
  \/ CallEnsureIncludeSpacing
  \/ CallContainsInstructionalContent
  \/ CallFlagBlockTitles
  \/ CallEnsureAdditionalResourcesRole

CallSpec == CallInit /\ [][CallNext]_vars

\* ls with one blank line between every two adjacent include lines
RECURSIVE Spaced(_)
Spaced(ls) ==
  IF Len(ls) <= 1 THEN ls
  ELSE IF IsInclude(ls[1]) /\ IsInclude(ls[2])
       THEN <<ls[1], <<>>>> \o Spaced(Tail(ls))
       ELSE <<ls[1]>> \o Spaced(Tail(ls))

(***************************************************************************)
(* C25.  Include spacing: after ensure_include_spacing no two adjacent     *)
(* lines are both include lines; the buffer is the one it was given with   *)
(* exactly one blank line between each pair of adjacent include lines and  *)
(* nothing else inserted; it returns True exactly when it inserted         *)
(* something; and a second run on its output inserts nothing.              *)
(***************************************************************************)
C25_IncludeSpacing ==
  (pc = "ensure_include_spacing" /\ pass >= 1) =>
    /\ \A k \in 1..(Len(lines) - 1) : ~(IsInclude(lines[k]) /\ IsInclude(lines[k + 1]))
    /\ lines = Spaced(input)
    /\ returned = (Len(lines) > Len(input))
    /\ pass >= 2 => (lines = input /\ ~returned)

\* the function has put two blank lines into a run of three include lines
C25_Witness ==
  /\ pc = "ensure_include_spacing"
  /\ pass = 1
  /\ returned
  /\ \E k \in 1..(Len(input) - 2) :
       IsInclude(input[k]) /\ IsInclude(input[k + 1]) /\ IsInclude(input[k + 2])
  /\ Len(lines) >= Len(input) + 2

\* b is o with zero or more copies of line x inserted
RECURSIVE EmbedsLine(_, _, _)
EmbedsLine(o, b, x) ==
  IF b = <<>> THEN o = <<>>
  ELSE \/ o # <<>> /\ Head(o) = Head(b) /\ EmbedsLine(Tail(o), Tail(b), x)
       \/ Head(b) = x /\ EmbedsLine(o, Tail(b), x)

(***************************************************************************)
(* C26.  Additional-resources role: in the buffer that                     *)
(* ensure_additional_resources_role returns every Additional resources     *)
(* line has the role line directly above it; the lines it was given are    *)
(* all there, unmodified and in their order, with nothing but role lines   *)
(* added; and a second run on the result returns an equal buffer.          *)
(***************************************************************************)
C26_AdditionalResourcesRole ==
  (pc = "ensure_additional_resources_role" /\ pass >= 1) =>
    /\ \A k \in 1..Len(lines) :
         IsAdditionalResources(lines[k]) => (k > 1 /\ lines[k - 1] = RoleLine)
    /\ EmbedsLine(input, lines, RoleLine)
    /\ Len(lines) - Len(input) =
         Cardinality({k \in 1..Len(input) :
                        /\ IsAdditionalResources(input[k])
                        /\ (k = 1 \/ input[k - 1] # RoleLine)})
    /\ pass >= 2 => lines = input

\* the function was given a heading that has its role line and a block
\* title that lacks it, and has added one role line
C26_Witness ==
  /\ pc = "ensure_additional_resources_role"
  /\ pass = 1
  /\ \E k \in 2..Len(input) :
       input[k] = <<"==", "Additional", "resources">> /\ input[k - 1] = RoleLine
  /\ \E k \in 2..Len(input) :
       input[k] = <<".Additional", "resources">> /\ input[k - 1] # RoleLine
  /\ Len(lines) = Len(input) + 1

\* the indices (from 1) of the block titles of the given buffer that the
\* scan finds offending
OffendingTitles == {k \in 1..Len(input) : Offending(input, k - 1)}

\* ls from its k-th line on, with the flag put before every offending line
RECURSIVE FlaggedFrom(_, _)
FlaggedFrom(ls, k) ==
  IF k > Len(ls) THEN <<>>
  ELSE (IF Offending(ls, k - 1) THEN <<TodoUnexpected>> ELSE <<>>)
         \o <<ls[k]>> \o FlaggedFrom(ls, k + 1)

(***************************************************************************)
(* C24.  Batch insertion without index drift: after flag_block_titles      *)
(* every block title the scan of the given buffer found offending has      *)
(* exactly one Unexpected-block-title line, directly above it, however     *)
(* many offending titles there are; nothing else is changed, and the call  *)
(* returns True exactly when there was one.                                *)
(***************************************************************************)
C24_BatchInsertion ==
  (pc = "flag_block_titles" /\ pass >= 1) =>
    /\ lines = FlaggedFrom(input, 1)
    /\ Len(lines) = Len(input) + Cardinality(OffendingTitles)
    /\ \A k \in OffendingTitles :
         LET at == k + Cardinality({j \in OffendingTitles : j <= k})
         IN  lines[at] = input[k] /\ lines[at - 1] = TodoUnexpected
    /\ returned = (OffendingTitles # {})

\* the function was given two offending titles and one title that heads a
\* listing block, and has flagged the two
C24_Witness ==
  /\ pc = "flag_block_titles"
  /\ pass = 1
  /\ Cardinality(OffendingTitles) = 2
  /\ \E k \in 1..(Len(input) - 1) :
       input[k] = <<".Troubleshoot">> /\ input[k + 1] = <<"----">>
  /\ Len(lines) = Len(input) + 2

\* the k-th line of the given buffer continues a list item: the lines from
\* a list item above it down to it have no blank line among them
ContinuesListItem(k) ==
  \E j \in 1..(k - 1) :
     /\ IsInstructionalListItem(LowerLine(input[j]))
     /\ \A m \in j..k : input[m] # <<>>

\* the paragraph lines of the given buffer that give an instruction and
\* belong to no list item
ImperativeParagraphs ==
  {k \in 1..Len(input) :
     LET s == LowerLine(input[k])
     IN  /\ s # <<>>
         /\ s[1] \notin CommentWords
         /\ ~IsSafeForm(s)
         /\ ~IsInstructionalListItem(s)
         /\ StartsWithVerb(s)
         /\ ~ContinuesListItem(k)}

\* the list items of the given buffer that give an instruction
ImperativeItems ==
  {k \in 1..Len(input) :
     LET s == LowerLine(input[k])
     IN  /\ s # <<>>
         /\ ~IsSafeForm(s)
         /\ IsInstructionalListItem(s)
         /\ StartsWithVerb(AfterColon(s))}

(***************************************************************************)
(* C27.  Imperatives outside lists are caught: when the first instruction  *)
(* of a buffer is a paragraph line that continues no list item,            *)
(* contains_instructional_content returns its index, wherever the line is, *)
(* also when a list item lies further up with blank lines in between.      *)
(***************************************************************************)
C27_ImperativeOutsideList ==
  (/\ pc = "contains_instructional_content"
   /\ pass = 1
   /\ ImperativeParagraphs # {}
   /\ \A j \in ImperativeItems : j > Least(ImperativeParagraphs)) =>
     idx = Least(ImperativeParagraphs) - 1

(***************************************************************************)
(* fix_any_file.py.  A document type is a string, "" standing for None.    *)
(***************************************************************************)
\* longest document body Init draws for fix_file
MaxAnyLen == 3
\* passes of fix_file over one file
MaxAnyPasses == 2

FileNames == {"x.adoc", "proc_x.adoc"}

\* get_doc_type(filename): the type the prefix of the name stands for
get_doc_type(name) == IF name = "proc_x.adoc" THEN "PROCEDURE" ELSE ""

\* os.path.splitext(filename)[0] put into the id line of line 137
IdLine(name) ==
  IF name = "proc_x.adoc"
  THEN <<"[id=\"proc_x_{context}\"]">> ELSE <<"[id=\"x_{context}\"]">>

\* words that match topic_id_pattern
IdWords == {"[id=\"proc_x_{context}\"]", "[id=\"x_{context}\"]"}

RecognizedTypes == {"PROCEDURE", "CONCEPT", "REFERENCE", "ASSEMBLY"}

TypeLine(t) == <<":_mod-docs-content-type:", t>>

TodoSetType ==
  <<"//", "TODO:", "Set", "the", ":_mod-docs-content-type:", "attribute",
    "and", "value">>
TodoOneTitle ==
  <<"//", "TODO:", "Review", "this", "file", "to", "ensure", "it", "has",
    "only", "one", "level", "zero", "\"=", "\"", "title", ".">>
TodoIntro ==
  <<"//", "TODO:", "Add", "a", "short", "introductory", "sentence", "here",
    "that", "explains", "the", "purpose", "of", "this", "module", "or",
    "assembly.">>
TodoAltText ==
  <<"//", "TODO:", "Add", "descriptive", "alt", "text", "in", "quotation",
    "marks", "for", "accessibility.">>

\* lines 120-122 for one line: the recognized type it declares, or ""
DeclaredType(s) ==
  IF \E i \in 1..(Len(s) - 1) :
        s[i] = ":_mod-docs-content-type:" /\ s[i + 1] \in RecognizedTypes
  THEN s[Least({i \in 1..(Len(s) - 1) :
                  s[i] = ":_mod-docs-content-type:"
                  /\ s[i + 1] \in RecognizedTypes}) + 1]
  ELSE ""

\* lines 119-124: the type of the first line that declares a recognized one
TypeInLines(ls) ==
  IF \E k \in 1..Len(ls) : DeclaredType(ls[k]) # ""
  THEN DeclaredType(ls[Least({k \in 1..Len(ls) : DeclaredType(ls[k]) # ""})])
  ELSE ""

\* lines 115-129: <<buffer, doc_type, changed>>
ResolveType(ls, name) ==
  LET byName == get_doc_type(name)
      doc_type == IF byName # "" THEN byName ELSE TypeInLines(ls)
  IN  IF doc_type = ""
      THEN <<Insert(Insert(ls, 0, TypeLine("TBD")), 0, TodoSetType), "TBD", TRUE>>
      ELSE <<ls, doc_type, FALSE>>

\* mod_docs_type_pattern.match(line)
IsTypeAttribute(s) == s # <<>> /\ s[1] = ":_mod-docs-content-type:"

\* lines 131-133
EnsureTypeAttribute(ls, doc_type) ==
  IF \E k \in 1..Len(ls) : IsTypeAttribute(ls[k])
  THEN ls ELSE Insert(ls, 0, TypeLine(doc_type))

\* lines 135-138
EnsureTopicId(ls, name) ==
  IF \E k \in 1..Len(ls) : ls[k] # <<>> /\ ls[k][1] \in IdWords
  THEN ls ELSE Insert(ls, 0, IdLine(name))

\* h1_title_pattern.match(line) and line.startswith('= ')
IsH1(s) == Len(s) > 1 /\ s[1] = "="

H1Indexes(ls) == {k \in 1..Len(ls) : IsH1(ls[k])}

\* lines 140-143
FlagSecondTitle(ls) ==
  IF Cardinality(H1Indexes(ls)) > 1
  THEN Insert(ls, Least(H1Indexes(ls) \ {Least(H1Indexes(ls))}) - 1, TodoOneTitle)
  ELSE ls

\* ensure_blank_line_after_title: the for loop from index i on
RECURSIVE BlankAfterTitleFrom(_, _)
BlankAfterTitleFrom(ls, i) ==
  IF i < Len(ls) - 1
  THEN IF IsH1(At(ls, i)) /\ At(ls, i + 1) # <<>>
       THEN Insert(ls, i + 1, <<>>)
       ELSE BlankAfterTitleFrom(ls, i + 1)
  ELSE ls

ensure_blank_line_after_title(ls) == BlankAfterTitleFrom(ls, 0)

\* words that start with ":"
ColonStartWords == {":_mod-docs-content-type:", ":context:"}

\* words that start with one of ".", "*", "-", "+", "=", "[", "include::",
\* "image::", "----"
BlockerWords ==
  TitleWords \cup IdWords \cup IncludeWords \cup
  {"*", "-", "+", "=", "==", "----", "[role=\"_additional-resources\"]",
   "image::a.png[]", "image::a.png[alt]", "image::a.png[\"alt\"]"}

\* lines of more than 10 characters with a lower-case letter that end with
\* "." or have more than 5 words
IntroLines == {<<"This", "module", "explains", "things.">>}

\* the for loop of has_short_intro from the k-th line (from 1) on
RECURSIVE ShortIntroFrom(_, _)
ShortIntroFrom(ls, k) ==
  IF k > Len(ls) THEN FALSE
  ELSE LET stripped == ls[k]
       IN  IF \/ stripped = <<>>
              \/ stripped[1] \in CommentWords
              \/ stripped[1] \in ColonStartWords
           THEN ShortIntroFrom(ls, k + 1)
           ELSE IF stripped[1] \in BlockerWords THEN FALSE
           ELSE stripped \in IntroLines

has_short_intro(ls) ==
  IF H1Indexes(ls) = {} \/ Least(H1Indexes(ls)) >= Len(ls)
  THEN FALSE
  ELSE ShortIntroFrom(ls, Least(H1Indexes(ls)) + 1)

\* lines 149-154
EnsureIntro(ls) ==
  IF ~has_short_intro(ls) /\ H1Indexes(ls) # {}
  THEN LET h1_index == Least(H1Indexes(ls)) - 1
       IN  Insert(Insert(ls, h1_index + 2, TodoIntro), h1_index + 3, <<>>)
  ELSE ls

\* fix_images for one line: the lines that go to new_lines
FixedImage(s) ==
  IF s = <<"image::a.png[]">> THEN <<s, TodoAltText>>
  ELSE IF s = <<"image::a.png[alt]">> THEN <<<<"image::a.png[\"alt\"]">>>>
  ELSE <<s>>

RECURSIVE fix_images(_)
fix_images(ls) ==
  IF ls = <<>> THEN <<>> ELSE FixedImage(Head(ls)) \o fix_images(Tail(ls))

AnyLines ==
  {TypeProcedure, <<"=", "Title">>, <<>>, <<"This", "module", "explains", "things.">>,
   <<"para">>, <<"image::a.png[]">>, <<"image::a.png[alt]">>,
   <<".Additional", "resources">>}

AnyDocs == BoundedSeq(AnyLines, MaxAnyLen)

AnyInit ==
  /\ file \in AnyDocs
  /\ filename \in FileNames
  /\ lines = <<>>
  /\ pc = "idle"
  /\ idx = 0
  /\ changed = FALSE
  /\ procedure_found = FALSE
  /\ procedure_line = None
  /\ list_started = FALSE
  /\ last_list_line = None
  /\ in_code_block = FALSE
  /\ returned = FALSE
  /\ pass = 0
  /\ input = <<>>
  /\ insLog = <<>>
  /\ prevLog = <<>>
  /\ dry_run = FALSE
  /\ tracked = <<>>
  /\ accepted = <<>>

\* lines 110-116
AnyOpen ==
  /\ pc \in {"idle", "done"}
  /\ pass < MaxAnyPasses
  /\ pc = "done" => file = lines
  /\ pass' = pass + 1
  /\ lines' = file
  /\ input' = file
  /\ changed' = FALSE
  /\ returned' = FALSE
  /\ dry_run' = FALSE
  /\ pc' = "metadata"
  /\ UNCHANGED <<file, scanState>>

\* the step at pc = at: lines becomes out, changed is set when it differs
AnyStep(at, then, out) ==
  /\ pc = at
  /\ lines' = out
  /\ changed' = (changed \/ out # lines)
  /\ pc' = then
  /\ UNCHANGED <<file, returned, pass, input, dry_run, scanState>>

\* lines 115-133
AnyMetadata ==
  AnyStep("metadata", "id",
          EnsureTypeAttribute(ResolveType(lines, filename)[1],
                              ResolveType(lines, filename)[2]))
\* lines 135-138
AnyTopicId == AnyStep("id", "h1", EnsureTopicId(lines, filename))
\* lines 140-143
AnyTitles == AnyStep("h1", "blank", FlagSecondTitle(lines))
\* lines 145-147
AnyBlankLine == AnyStep("blank", "intro", ensure_blank_line_after_title(lines))
\* lines 149-154
AnyIntro == AnyStep("intro", "images", EnsureIntro(lines))
\* lines 156-159
AnyImages == AnyStep("images", "role", fix_images(lines))
\* lines 161-164
AnyRole == AnyStep("role", "write", ensure_additional_resources_role(lines))

\* lines 166-170
AnyFinish ==
  /\ pc = "write"
  /\ \E d \in BOOLEAN :
       /\ dry_run' = d
       /\ file' = IF Writes(changed, d) THEN lines ELSE file
  /\ returned' = changed
  /\ pc' = "done"
  /\ UNCHANGED <<lines, changed, pass, input, scanState>>

AnyNext ==
  \/ AnyOpen
  \/ AnyMetadata
  \/ AnyTopicId
  \/ AnyTitles
  \/ AnyBlankLine
  \/ AnyIntro
  \/ AnyImages
  \/ AnyRole
  \/ AnyFinish

AnyFileSpec == AnyInit /\ [][AnyNext]_vars

(***************************************************************************)
(* C23.  Unknown-type metadata insertion converges: for a file whose name  *)
(* has no recognized prefix and whose lines declare no recognized content  *)
(* type, the first pass of fix_file inserts the set-the-attribute TODO     *)
(* line and the TBD attribute line, and a second pass over that output     *)
(* inserts neither of them again.                                          *)
(***************************************************************************)
C23_UnknownTypeConverges ==
  (pc = "done" /\ get_doc_type(filename) = "" /\ TypeInLines(input) = "") =>
    /\ pass = 1 =>
         /\ Copies(lines, TodoSetType) = Copies(input, TodoSetType) + 1
         /\ Copies(lines, TypeLine("TBD")) = Copies(input, TypeLine("TBD")) + 1
    /\ pass >= 2 =>
         /\ Copies(lines, TodoSetType) = Copies(input, TodoSetType)
         /\ Copies(lines, TypeLine("TBD")) = Copies(input, TypeLine("TBD"))

=============================================================================
